---- MODULE Spec2Model ----
(***************************************************************************)
(* A model of src/src/htmltree.py: the HTMLTree tree builder (a stack      *)
(* machine driven by the HTMLParser callbacks) and the _serialize_html     *)
(* serializer.                                                             *)
(*                                                                         *)
(* Objects live in one heap shared by every HTMLTree instance, as Python   *)
(* objects do: heap[n] is the ET.Element with identity n.  A handler that  *)
(* raises leaves the instance alive (the exception propagates to the       *)
(* caller of feed(), who may go on using the object), so `error` holds the *)
(* exception of the last call and later calls are still possible.          *)
(* Assertions are enabled (the interpreter's default).                     *)
(***************************************************************************)
EXTENDS Integers, Sequences, FiniteSets

VARIABLES
    heap,    \* Seq of nodes: every ET.Element object created so far
    trees,   \* Seq of HTMLTree instances: [declaration, _root, _stack]
    log,     \* per instance, the handler calls made so far (history)
    error,   \* the exception raised by the last call, or NoError
    ret      \* the last query (root / to_string / _serialize_html) and its result

vars == <<heap, trees, log, error, ret>>

\* ------------------------------------------------------------------ bounds
MaxEvents == 3
MaxParEvents == 2
MaxNodes == 3

\* ------------------------------------------------------------ Python values
\* Python's None (a value no string of the model equals).
None == "\\None"
NoError == "no error"

\* str(v) as an f-string formats it.
Str(v) == IF v = None THEN "None" ELSE v

\* Truthiness of an Optional[str]: None and "" are false.
Truthy(v) == v # None /\ v # ""

\* str.lower() on the tag names of the model.
lower(s) ==
    CASE s = "BR" -> "br"
      [] s = "A" -> "a"
      [] OTHER -> s

\* ------------------------------------------------------------ classifier
EMPTY ==
    { "area", "base", "basefont", "br", "col", "frame", "hr", "img", "input",
      "link", "meta", "param", "mprescripts", "none", "mspace", "isindex" }

\* The classes used as tags of the non-element nodes.
TextNode == "<class TextNode>"
CommentNode == "<class CommentNode>"
ProcessingInstructionNode == "<class ProcessingInstructionNode>"

CHILDLESS == EMPTY \cup {CommentNode, TextNode, ProcessingInstructionNode}

\* ------------------------------------------------------------ node model
\* dict(attrs) gone wrong: a repeated name keeps its first value.
RECURSIVE dict_first_wins(_)
dict_first_wins(pairs) ==
    IF pairs = <<>> THEN <<>>
    ELSE LET init == dict_first_wins(SubSeq(pairs, 1, Len(pairs) - 1))
             p == pairs[Len(pairs)]
         IN IF \E k \in DOMAIN init : init[k][1] = p[1]
            THEN init
            ELSE Append(init, <<p[1], p[2]>>)

\* dict(attrs) for a list of (name, value) pairs: a repeated name keeps the
\* position of its first occurrence and takes the last value.
RECURSIVE dict(_)
dict(pairs) ==
    IF pairs = <<>> THEN <<>>
    ELSE LET init == dict(SubSeq(pairs, 1, Len(pairs) - 1))
             p == pairs[Len(pairs)]
         IN IF \E k \in DOMAIN init : init[k][1] = p[1]
            THEN [k \in DOMAIN init |->
                    IF init[k][1] = p[1] THEN <<p[1], p[2]>> ELSE init[k]]
            ELSE Append(init, <<p[1], p[2]>>)

\* ET.Element("ROOT")
RootElement ==
    [cls |-> "Element", tag |-> "ROOT", attrib |-> <<>>, text |-> None,
     children |-> <<>>]

\* ElementNode(tag, attrs): ET.Element copies the mapping it is given.
NewElementNode(tag, attrs) ==
    [cls |-> "ElementNode", tag |-> tag, attrib |-> attrs, text |-> None,
     children |-> <<>>]

NewTextNode(text) ==
    [cls |-> "TextNode", tag |-> TextNode, attrib |-> <<>>, text |-> text,
     children |-> <<>>]

NewCommentNode(text) ==
    [cls |-> "CommentNode", tag |-> CommentNode, attrib |-> <<>>, text |-> text,
     children |-> <<>>]

NewProcessingInstructionNode(text) ==
    [cls |-> "ProcessingInstructionNode", tag |-> ProcessingInstructionNode,
     attrib |-> <<>>, text |-> text, children |-> <<>>]

\* --------------------------------------------------------------- builder
\* The result of a handler: the heap, the instance and the exception raised.
Outcome(h, self, e) == [heap |-> h, self |-> self, error |-> e]

\* __init__ gone wrong: _root is one object made once and shared by every
\* instance (as a class attribute would be).
HTMLTree_init_shared_root(h) ==
    IF h = <<>>
    THEN [heap |-> <<RootElement>>,
          self |-> [declaration |-> None, _root |-> 1, _stack |-> <<1>>]]
    ELSE [heap |-> h,
          self |-> [declaration |-> None, _root |-> 1, _stack |-> <<1>>]]

\* HTMLTree.__init__ on a heap h: the new heap and the new instance.
HTMLTree_init(h) ==
    [heap |-> Append(h, RootElement),
     self |-> [declaration |-> None, _root |-> Len(h) + 1,
               _stack |-> <<Len(h) + 1>>]]

\* _push gone wrong: the node is put in front of the children of the top.
_push_in_front(h, self, el) ==
    IF self._stack = <<>>
    THEN Outcome(h, self, "IndexError")
    ELSE LET top == self._stack[Len(self._stack)]
             new == Len(h) + 1
             h1 == Append([h EXCEPT ![top].children = <<new>> \o @], el)
         IN Outcome(h1,
                    IF el.tag \notin CHILDLESS
                    THEN [self EXCEPT !._stack = Append(@, new)] ELSE self,
                    NoError)

\* _push gone wrong: the node goes under the element created last, open or not.
_push_under_newest(h, self, el) ==
    IF self._stack = <<>>
    THEN Outcome(h, self, "IndexError")
    ELSE LET top == self._stack[Len(self._stack)]
             under == IF h[Len(h)].cls = "ElementNode" /\ h[Len(h)].tag \notin EMPTY
                      THEN Len(h) ELSE top
             new == Len(h) + 1
             h1 == Append([h EXCEPT ![under].children = Append(@, new)], el)
         IN Outcome(h1,
                    IF el.tag \notin CHILDLESS
                    THEN [self EXCEPT !._stack = Append(@, new)] ELSE self,
                    NoError)

\* _push gone wrong: every node is pushed, childless or not.
_push_always(h, self, el) ==
    IF self._stack = <<>>
    THEN Outcome(h, self, "IndexError")
    ELSE LET id == Len(h) + 1
             top == self._stack[Len(self._stack)]
             h1 == Append([h EXCEPT ![top].children = Append(@, id)], el)
         IN Outcome(h1, [self EXCEPT !._stack = Append(@, id)], NoError)

\* self._stack[-1].append(el); if el.tag not in CHILDLESS: self._stack.append(el)
\* (self._stack[-1] of an empty list raises IndexError; the node el, already
\* constructed, is then referenced by nothing and is not kept in the heap.)
_push(h, self, el) ==
    IF self._stack = <<>>
    THEN Outcome(h, self, "IndexError")
    ELSE LET id == Len(h) + 1
             top == self._stack[Len(self._stack)]
             h1 == Append([h EXCEPT ![top].children = Append(@, id)], el)
         IN IF el.tag \notin CHILDLESS
            THEN Outcome(h1, [self EXCEPT !._stack = Append(@, id)], NoError)
            ELSE Outcome(h1, self, NoError)

handle_starttag(h, self, tag, attrs) ==
    _push(h, self, NewElementNode(tag, dict(attrs)))

\* handle_endtag gone wrong: the test for EMPTY is missing, every end tag pops.
handle_endtag_always_pops(h, self, tag) ==
    IF self._stack = <<>>
    THEN Outcome(h, self, "IndexError")
    ELSE LET popped == self._stack[Len(self._stack)]
             self1 == [self EXCEPT !._stack = SubSeq(@, 1, Len(@) - 1)]
         IN Outcome(h, self1,
                    IF tag = h[popped].tag THEN NoError ELSE "AssertionError")

\* if tag not in EMPTY: assert tag == self._pop().tag
\* The pop happens before the comparison; list.pop() of an empty list raises
\* IndexError.
handle_endtag(h, self, tag) ==
    IF tag \in EMPTY
    THEN Outcome(h, self, NoError)
    ELSE IF self._stack = <<>>
    THEN Outcome(h, self, "IndexError")
    ELSE LET popped == self._stack[Len(self._stack)]
             self1 == [self EXCEPT !._stack = SubSeq(@, 1, Len(@) - 1)]
         IN Outcome(h, self1,
                    IF tag = h[popped].tag THEN NoError ELSE "AssertionError")

handle_startendtag(h, self, tag, attrs) ==
    LET o == handle_starttag(h, self, tag, attrs)
    IN IF o.error # NoError THEN o ELSE handle_endtag(o.heap, o.self, tag)

handle_data(h, self, data) == _push(h, self, NewTextNode(data))

handle_comment(h, self, data) == _push(h, self, NewCommentNode(data))

\* handle_decl gone wrong: a declaration already stored is kept.
handle_decl_keeps_first(h, self, decl) ==
    Outcome(h, IF self.declaration = None
               THEN [self EXCEPT !.declaration = decl] ELSE self, NoError)

handle_decl(h, self, decl) ==
    Outcome(h, [self EXCEPT !.declaration = decl], NoError)

handle_pi(h, self, data) == _push(h, self, NewProcessingInstructionNode(data))

\* One handler call, as the tokenizer makes it.
Event(op, tag, attrs, data) ==
    [op |-> op, tag |-> tag, attrs |-> attrs, data |-> data]

Handle(h, self, ev) ==
    CASE ev.op = "starttag" -> handle_starttag(h, self, ev.tag, ev.attrs)
      [] ev.op = "endtag" -> handle_endtag(h, self, ev.tag)
      [] ev.op = "startendtag" -> handle_startendtag(h, self, ev.tag, ev.attrs)
      [] ev.op = "data" -> handle_data(h, self, ev.data)
      [] ev.op = "comment" -> handle_comment(h, self, ev.data)
      [] ev.op = "decl" -> handle_decl(h, self, ev.data)
      [] ev.op = "pi" -> handle_pi(h, self, ev.data)

\* ------------------------------------------------------------ serializer
\* The join of the strings handed to write(), as io.StringIO.getvalue() gives it.
RECURSIVE Join(_)
Join(ws) == IF ws = <<>> THEN "" ELSE ws[1] \o Join(Tail(ws))

\* The order of str values that sorted() uses, on the URIs of the model.
StrOrder == <<"urn:m", "urn:s">>
Rank(s) == CHOOSE k \in DOMAIN StrOrder : StrOrder[k] = s

\* sorted(namespaces.items(), key=lambda x: x[1]) (a stable sort)
RECURSIVE sorted_by_value(_)
sorted_by_value(items) ==
    IF items = <<>> THEN <<>>
    ELSE LET rest == sorted_by_value(SubSeq(items, 1, Len(items) - 1))
             x == items[Len(items)]
             n == Cardinality({k \in DOMAIN rest : Rank(rest[k][2]) <= Rank(x[2])})
         IN SubSeq(rest, 1, n) \o <<x>> \o SubSeq(rest, n + 1, Len(rest))

\* for attr, value in sorted(...): write(' xmlns:{attr}="{value}"')
\* The string is no f-string: the braces are written as they stand.
NamespaceWrites(namespaces) ==
    [k \in DOMAIN sorted_by_value(namespaces) |-> " xmlns:{attr}=\"{value}\""]

\* for attr, value in items: write(f' {attr}="{value}"'), or f' {attr}=""'
AttributeWrites(items) ==
    [k \in DOMAIN items |->
        IF items[k][2] # None
        THEN " " \o items[k][1] \o "=\"" \o items[k][2] \o "\""
        ELSE " " \o items[k][1] \o "=\"\""]

\* _serialize_html(write, elem, indent, namespaces): the sequence of the
\* strings it hands to write().  A mapping that is None or empty is <<>>: the
\* function only tests its truth and iterates it.
RECURSIVE _serialize_html(_, _, _)
_serialize_html(h, elem, namespaces) ==
    LET tag == h[elem].tag
        text == h[elem].text
        RECURSIVE Children(_)
        Children(kids) ==
            IF kids = <<>> THEN <<>>
            ELSE _serialize_html(h, kids[1], <<>>) \o Children(Tail(kids))
    IN IF tag = CommentNode THEN << "<!--" \o Str(text) \o "-->" >>
       ELSE IF tag = TextNode THEN << text >>
       ELSE IF tag = ProcessingInstructionNode THEN << "<?" \o Str(text) \o ">" >>
       ELSE LET items == h[elem].attrib
                ltag == lower(tag)
            IN << "<" \o tag >>
               \o (IF items # <<>> \/ namespaces # <<>>
                   THEN NamespaceWrites(namespaces) \o AttributeWrites(items)
                   ELSE <<>>)
               \o (IF ltag \notin EMPTY THEN << ">" >> ELSE << "/>" >>)
               \o (IF Truthy(text) THEN << text >> ELSE <<>>)
               \o Children(h[elem].children)
               \o (IF ltag \notin EMPTY THEN << "</" \o tag \o ">" >> ELSE <<>>)

\* --------------------------------------------------------------- queries
\* root gone wrong: the filter is missing, the first child is returned.
root_first_child(h, self) ==
    LET kids == h[self._root].children
    IN IF kids = <<>>
       THEN [node |-> 0, error |-> "StopIteration"]
       ELSE [node |-> kids[1], error |-> NoError]

\* HTMLTree.root: next(filter(lambda x: isinstance(x, ElementNode), self._root));
\* next() of an exhausted iterator raises StopIteration.
root(h, self) ==
    LET kids == h[self._root].children
        hits == {k \in DOMAIN kids : h[kids[k]].cls = "ElementNode"}
    IN IF hits = {}
       THEN [node |-> 0, error |-> "StopIteration"]
       ELSE [node |-> kids[CHOOSE k \in hits : \A j \in hits : k <= j],
             error |-> NoError]

\* The names bound at module level in htmltree.py.
ModuleGlobals ==
    { "ET", "HTMLParser", "Enum", "logging", "io", "logger", "INLINE",
      "ENDINLINE", "BLOCK", "OPTIONAL", "EMPTY", "MML", "XML", "ElementNode",
      "TextNode", "CommentNode", "ProcessingInstructionNode", "DeclarationNode",
      "NodeType", "CHILDLESS", "HTMLTree", "_serialize_html" }

\* HTMLTree.to_string(indent, namespaces).  `tree.declaration` reads the global
\* name `tree`, which the module does not bind: NameError.  (Were it bound to
\* this instance, the rest of the body would run as written below.)
to_string(h, self, indent, namespaces) ==
    IF indent # None
    THEN [value |-> None, error |-> "NotImplementedError"]
    ELSE IF "tree" \notin ModuleGlobals
    THEN [value |-> None, error |-> "NameError"]
    ELSE LET r == root(h, self)
             decl == IF Truthy(self.declaration)
                     THEN "<!" \o Str(self.declaration) \o ">\n" ELSE ""
         IN IF r.error # NoError
            THEN [value |-> None, error |-> r.error]
            ELSE [value |-> decl \o Join(_serialize_html(h, r.node, namespaces)),
                  error |-> NoError]

\* ------------------------------------------------------------------ inputs
\* The (tag, attrs) pairs of the start tags fed to a single parse.  "embed" is a
\* void element of HTML that EMPTY does not hold.
StartInputs ==
    { <<"a", <<>>>>, <<"br", <<>>>>, <<"embed", <<>>>>,
      <<"img", << <<"src", "x.png">> >> >>,
      <<"b", << <<"k", "1">>, <<"j", None>>, <<"k", "2">> >> >> }
EndInputs == {"a", "b", "br", "embed"}
StartEndInputs == { <<"a", <<>>>>, <<"br", <<>>>> }
DataInputs == {"x"}
CommentInputs == {" note "}
PiInputs == {"xml version=\"1.0\"?"}
DeclInputs == {"DOCTYPE html", "doctype x"}

\* The inputs of two parses run side by side.
ParStartInputs == { <<"a", << <<"k", "1">> >> >> }
ParEndInputs == {"a"}
ParDataInputs == {"x"}
ParDeclInputs == {"DOCTYPE html"}

NamespaceInputs == { <<>>, << <<"svg", "urn:s">>, <<"m", "urn:m">> >> }
\* The (indent, namespaces) arguments of to_string.
ToStringInputs ==
    { <<None, <<>>>>, <<"  ", <<>>>>, <<None, << <<"svg", "urn:s">>, <<"m", "urn:m">> >> >> }

\* The nodes a caller of _serialize_html can build with the ET API.
NodeContents ==
    { NewElementNode("a", <<>>),
      [NewElementNode("a", << <<"k", "1">> >>) EXCEPT !.text = "t"],
      NewElementNode("br", <<>>),
      [NewElementNode("br", <<>>) EXCEPT !.text = "t"],
      NewElementNode("BR", <<>>),
      NewTextNode("x"),
      NewCommentNode("c") }

\* ----------------------------------------------------------------- actions
NoRet ==
    [op |-> "none", inst |-> 0, node |-> 0, indent |-> None, ns |-> <<>>,
     writes |-> <<>>, value |-> None]

\* Instance i may be fed one more event.
CanFeed(i) ==
    Len(log[i]) < (IF Len(trees) = 1 THEN MaxEvents ELSE MaxParEvents)

\* The tokenizer calls one handler of instance i.
Feed(i, ev) ==
    LET o == Handle(heap, trees[i], ev)
    IN /\ CanFeed(i)
       /\ heap' = o.heap
       /\ trees' = [trees EXCEPT ![i] = o.self]
       /\ log' = [log EXCEPT ![i] = Append(@,
                     [ev |-> ev, error |-> o.error,
                      node |-> IF Len(o.heap) > Len(heap) THEN Len(heap) + 1 ELSE 0])]
       /\ error' = o.error
       /\ ret' = NoRet

StartTag(inputs) ==
    \E i \in DOMAIN trees, in \in inputs :
        Feed(i, Event("starttag", in[1], in[2], None))

EndTag(inputs) ==
    \E i \in DOMAIN trees, tag \in inputs : Feed(i, Event("endtag", tag, <<>>, None))

StartEndTag(inputs) ==
    \E i \in DOMAIN trees, in \in inputs :
        Feed(i, Event("startendtag", in[1], in[2], None))

Data(inputs) ==
    \E i \in DOMAIN trees, d \in inputs : Feed(i, Event("data", None, <<>>, d))

Comment(inputs) ==
    \E i \in DOMAIN trees, d \in inputs : Feed(i, Event("comment", None, <<>>, d))

ProcessingInstruction(inputs) ==
    \E i \in DOMAIN trees, d \in inputs : Feed(i, Event("pi", None, <<>>, d))

Declaration(inputs) ==
    \E i \in DOMAIN trees, d \in inputs : Feed(i, Event("decl", None, <<>>, d))

\* The queries read the objects and change none: `ret` records one query, asked
\* in the state the last handler call left.
\* tree.root
Root ==
    \E i \in DOMAIN trees :
        LET r == root(heap, trees[i])
        IN /\ ret.op = "none"
           /\ ret' = [NoRet EXCEPT !.op = "root", !.inst = i, !.node = r.node]
           /\ error' = r.error
           /\ UNCHANGED <<heap, trees, log>>

\* tree.to_string(indent, namespaces)
ToString ==
    \E i \in DOMAIN trees, in \in ToStringInputs :
        LET r == to_string(heap, trees[i], in[1], in[2])
        IN /\ ret.op = "none"
           /\ ret' = [NoRet EXCEPT !.op = "to_string", !.inst = i,
                                   !.indent = in[1], !.ns = in[2], !.value = r.value]
           /\ error' = r.error
           /\ UNCHANGED <<heap, trees, log>>

\* _serialize_html(write, elem, None, namespaces) into a fresh StringIO, for an
\* element elem (a Text, Comment or ProcessingInstruction node is serialized as
\* a child).
Serialize ==
    \E elem \in DOMAIN heap, ns \in NamespaceInputs :
        LET ws == _serialize_html(heap, elem, ns)
        IN /\ ret.op = "none"
           /\ heap[elem].cls \in {"Element", "ElementNode"}
           /\ ret' = [NoRet EXCEPT !.op = "_serialize_html", !.node = elem,
                                   !.ns = ns, !.writes = ws, !.value = Join(ws)]
           /\ error' = NoError
           /\ UNCHANGED <<heap, trees, log>>

\* ---------------------------------------------------------- specifications
\* One parse: tree = HTMLTree(), then events and queries.
Init ==
    /\ heap = HTMLTree_init(<<>>).heap
    /\ trees = << HTMLTree_init(<<>>).self >>
    /\ log = << <<>> >>
    /\ error = NoError
    /\ ret = NoRet

Next ==
    \/ StartTag(StartInputs)
    \/ EndTag(EndInputs)
    \/ StartEndTag(StartEndInputs)
    \/ Data(DataInputs)
    \/ Comment(CommentInputs)
    \/ ProcessingInstruction(PiInputs)
    \/ Declaration(DeclInputs)
    \/ Root
    \/ ToString
    \/ Serialize

Spec == Init /\ [][Next]_vars

\* One parse, the tree builder alone: tree = HTMLTree(), then the tokenizer's
\* events.
NextBuild ==
    \/ StartTag(StartInputs)
    \/ EndTag(EndInputs)
    \/ StartEndTag(StartEndInputs)
    \/ Data(DataInputs)
    \/ Comment(CommentInputs)
    \/ ProcessingInstruction(PiInputs)
    \/ Declaration(DeclInputs)

SpecBuild == Init /\ [][NextBuild]_vars

\* ------------------------------------------------- markup through feed()
\* HTMLTree is an HTMLParser: feed() hands the markup to the tokenizer of
\* html.parser, which lower-cases the name of every start and end tag before
\* it calls handle_starttag / handle_endtag.

\* The tokenizer gone wrong: the name is handed on as it was written.
parse_starttag_as_written(name, attrs) ==
    Event("starttag", name, attrs, None)

parse_starttag(name, attrs) ==
    Event("starttag", lower(name), attrs, None)

parse_endtag(name) ==
    Event("endtag", lower(name), <<>>, None)

\* The tag names as they are written in the markup fed to the parser.
WrittenTags == {"a", "A", "br", "BR", "embed"}

\* feed() of instance i on markup that tokenizes to the one event ev.
FeedMarkup(i, markup, ev) ==
    LET o == Handle(heap, trees[i], ev)
    IN /\ CanFeed(i)
       /\ heap' = o.heap
       /\ trees' = [trees EXCEPT ![i] = o.self]
       /\ log' = [log EXCEPT ![i] = Append(@,
                     [ev |-> ev, error |-> o.error,
                      node |-> IF Len(o.heap) > Len(heap) THEN Len(heap) + 1 ELSE 0])]
       /\ error' = o.error
       /\ ret' = [NoRet EXCEPT !.op = "feed", !.inst = i, !.value = markup]

FeedStartTag ==
    \E i \in DOMAIN trees, name \in WrittenTags :
        FeedMarkup(i, "<" \o name \o ">", parse_starttag(name, <<>>))

FeedEndTag ==
    \E i \in DOMAIN trees, name \in WrittenTags :
        FeedMarkup(i, "</" \o name \o ">", parse_endtag(name))

FeedData ==
    \E i \in DOMAIN trees, data \in DataInputs :
        FeedMarkup(i, data, Event("data", None, <<>>, data))

NextCase == FeedStartTag \/ FeedEndTag \/ FeedData

SpecCase == Init /\ [][NextCase]_vars

\* Two parses side by side: two HTMLTree() instances, their events interleaved.
InitPar ==
    LET one == HTMLTree_init(<<>>)
        two == HTMLTree_init(one.heap)
    IN /\ heap = two.heap
       /\ trees = << one.self, two.self >>
       /\ log = << <<>>, <<>> >>
       /\ error = NoError
       /\ ret = NoRet

NextPar ==
    \/ StartTag(ParStartInputs)
    \/ EndTag(ParEndInputs)
    \/ Data(ParDataInputs)
    \/ Declaration(ParDeclInputs)

SpecPar == InitPar /\ [][NextPar]_vars

\* The serializer alone, on any tree of at most MaxNodes nodes that the ET API
\* can build: node 1 is the outermost, every other node hangs under an earlier one.
RECURSIVE Ascending(_)
Ascending(S) ==
    IF S = {} THEN <<>>
    ELSE LET m == CHOOSE x \in S : \A y \in S : x <= y
         IN <<m>> \o Ascending(S \ {m})

InitSer ==
    /\ \E n \in 1..MaxNodes :
         \E par \in [2..n -> 1..n], cont \in [1..n -> NodeContents] :
            /\ \A i \in 2..n : par[i] < i
            /\ heap = [i \in 1..n |->
                        [cont[i] EXCEPT
                           !.children = Ascending({j \in 2..n : par[j] = i})]]
    /\ trees = <<>>
    /\ log = <<>>
    /\ error = NoError
    /\ ret = NoRet

NextSer == Serialize

SpecSer == InitSer /\ [][NextSer]_vars

\* ------------------------------------------------------------------ claims
\* The void elements as the specification lists them (section 4.2): EMPTY and
\* four more.
HTML_VOID == EMPTY \cup {"embed", "source", "track", "wbr"}

Last(seq) == seq[Len(seq)]
Front(seq) == SubSeq(seq, 1, Len(seq) - 1)

\* The step is one more handler call on instance i, and that call is e.
Called(i, op) ==
    /\ Len(log'[i]) = Len(log[i]) + 1
    /\ Last(log'[i]).ev.op = op

\* C1: an EndTag(name) whose name is not void and is not the tag of the node on
\* top of the open-element stack raises no error and leaves the stack and the
\* tree unchanged.
C1_MismatchedEndTagIgnored ==
    [][\A i \in DOMAIN trees :
          ( /\ Called(i, "endtag")
            /\ Last(log'[i]).ev.tag \notin HTML_VOID
            /\ trees[i]._stack # <<>>
            /\ heap[Last(trees[i]._stack)].tag # Last(log'[i]).ev.tag )
          => ( /\ error' = NoError
               /\ trees'[i]._stack = trees[i]._stack
               /\ heap' = heap )]_vars

\* The events of instance i, in order.
Events(i) == [k \in DOMAIN log[i] |-> log[i][k].ev]

\* The tags left open by a sequence of events in which every end tag closes the
\* innermost open non-void element; <<"#">> when some end tag does not.
RECURSIVE OpenTags(_, _)
OpenTags(evs, void) ==
    IF evs = <<>> THEN <<>>
    ELSE LET before == OpenTags(Front(evs), void)
             e == Last(evs)
         IN IF before = <<"#">> THEN before
            ELSE IF e.op = "starttag" /\ e.tag \notin void THEN Append(before, e.tag)
            ELSE IF e.op = "endtag"
                 THEN IF e.tag \notin void /\ before # <<>> /\ Last(before) = e.tag
                      THEN Front(before) ELSE <<"#">>
            ELSE before

\* A well-formed document of one top-level element: it starts with a start tag,
\* every non-void start tag is closed by its end tag in nested order, and the
\* first element closes with the last event.
WellFormed(evs, void) ==
    /\ evs # <<>>
    /\ evs[1].op \in {"starttag", "startendtag"}
    /\ OpenTags(evs, void) = <<>>
    /\ \A k \in 1..(Len(evs) - 1) :
          OpenTags(SubSeq(evs, 1, k), void) \notin {<<>>, <<"#">>}

\* The markup of a sequence of events: each start tag with its attributes, each
\* text, comment and processing instruction, each end tag; a void element as
\* <tag/>.
RECURSIVE Render(_, _)
Render(evs, void) ==
    IF evs = <<>> THEN ""
    ELSE LET e == evs[1]
             open == "<" \o e.tag \o Join(AttributeWrites(dict(e.attrs)))
             this ==
                CASE e.op = "starttag" ->
                        open \o (IF e.tag \in void THEN "/>" ELSE ">")
                  [] e.op = "startendtag" ->
                        open \o (IF e.tag \in void THEN "/>"
                                 ELSE ">" \o "</" \o e.tag \o ">")
                  [] e.op = "endtag" -> "</" \o e.tag \o ">"
                  [] e.op = "data" -> e.data
                  [] e.op = "comment" -> "<!--" \o e.data \o "-->"
                  [] e.op = "pi" -> "<?" \o e.data \o ">"
                  [] OTHER -> ""
         IN this \o Render(Tail(evs), void)

\* Parsing a well-formed document (void as `void` lists it) raises no error, and
\* serializing its root element gives back the markup of the events.
RoundTrip(void) ==
    \A i \in DOMAIN trees :
        WellFormed(Events(i), void)
        => /\ \A k \in DOMAIN log[i] : log[i][k].error = NoError
           /\ ( /\ ret.op = "_serialize_html"
                /\ ret.ns = <<>>
                /\ ret.node = root(heap, trees[i]).node )
              => ret.value = Render(Events(i), void)

\* C2: parse then serialize round-trips every well-formed input: the same start
\* tags and attributes, text, comments and end tags in the same order, a void
\* element as a single <tag/>.
C2_RoundTrip == RoundTrip(HTML_VOID)

\* The same, for the documents whose void elements are those of EMPTY.
RoundTripOnEmpty == RoundTrip(EMPTY)

\* After StartTag(tag), Data, EndTag(tag) with tag in `void`, the element made
\* for tag has no child and the Text node is its next sibling.
VoidStaysChildless(void) ==
    \A i \in DOMAIN trees :
        LET n == Len(log[i])
        IN ( /\ n >= 3
             /\ log[i][n - 2].ev.op = "starttag"
             /\ log[i][n - 2].ev.tag \in void
             /\ log[i][n - 2].node # 0
             /\ log[i][n - 1].ev.op = "data"
             /\ log[i][n - 1].node # 0
             /\ log[i][n].ev.op = "endtag"
             /\ log[i][n].ev.tag = log[i][n - 2].ev.tag )
           => /\ heap[log[i][n - 2].node].children = <<>>
              /\ \E p \in DOMAIN heap :
                  \E j \in DOMAIN heap[p].children :
                     /\ heap[p].children[j] = log[i][n - 2].node
                     /\ j + 1 \in DOMAIN heap[p].children
                     /\ heap[p].children[j + 1] = log[i][n - 1].node

\* C3: for every tag listed as void (area ... wbr, basefont, frame, isindex,
\* mprescripts, none, mspace), after StartTag(tag), Data(anything), EndTag(tag)
\* the element has zero children and the Text node is its next sibling.
C3_VoidNeverAcquiresChildren == VoidStaysChildless(HTML_VOID)

\* The same, for the tags of EMPTY.
VoidOfEmptyStaysChildless == VoidStaysChildless(EMPTY)

\* C4: serializing an Element whose lowercased tag is void writes <tag, its
\* attributes and /> and nothing more, whatever text or children it holds.
C4_VoidSerializationStops ==
    ( /\ ret.op = "_serialize_html"
      /\ ret.ns = <<>>
      /\ heap[ret.node].cls = "ElementNode"
      /\ lower(heap[ret.node].tag) \in EMPTY )
    => ret.value = "<" \o heap[ret.node].tag
                   \o Join(AttributeWrites(heap[ret.node].attrib)) \o "/>"

\* The serializations of the nodes `kids`, one after the other.
RECURSIVE SerializeEach(_)
SerializeEach(kids) ==
    IF kids = <<>> THEN ""
    ELSE Join(_serialize_html(heap, kids[1], <<>>)) \o SerializeEach(Tail(kids))

HasRootElement(i) ==
    \E k \in DOMAIN heap[trees[i]._root].children :
        heap[heap[trees[i]._root].children[k]].cls = "ElementNode"

\* C5: to_string of a parsed document emits every top-level node of the
\* document in order (for <br><img src="x.png">: <br/><img src="x.png"/>).
C5_ToStringEmitsEveryTopLevelNode ==
    ( /\ ret.op = "to_string"
      /\ ret.indent = None
      /\ ret.ns = <<>>
      /\ HasRootElement(ret.inst)
      /\ trees[ret.inst].declaration = None )
    => /\ error = NoError
       /\ ret.value = SerializeEach(heap[trees[ret.inst]._root].children)

\* C6: to_string raises NotImplementedError exactly when indent is not the
\* default; with the default indent, on a document that has a root Element, it
\* raises nothing and returns a string.
C6_ToStringFailsOnlyOnIndent ==
    ret.op = "to_string"
    => /\ (error = "NotImplementedError") <=> (ret.indent # None)
       /\ (ret.indent = None /\ HasRootElement(ret.inst))
          => (error = NoError /\ ret.value # None)

\* C7: root returns the first child of the Document that is an Element, skipping
\* the Comment, Text and ProcessingInstruction children before it, after any
\* sequence of events; with no Element child it raises (StopIteration) and
\* returns no node.
C7_RootIsFirstElementChild ==
    ret.op = "root"
    => LET kids == heap[trees[ret.inst]._root].children
       IN IF \E k \in DOMAIN kids : heap[kids[k]].cls = "ElementNode"
          THEN /\ error = NoError
               /\ \E k \in DOMAIN kids :
                     /\ ret.node = kids[k]
                     /\ heap[kids[k]].cls = "ElementNode"
                     /\ \A j \in 1..(k - 1) :
                           heap[kids[j]].cls \in
                              {"CommentNode", "TextNode", "ProcessingInstructionNode"}
          ELSE /\ error = "StopIteration"
               /\ ret.node = 0

\* <!-- note --><a></a>: the declaration is unset, the first child of the
\* Document is the Comment, and root is the element, which has no children.
C7_Witness ==
    /\ ret.op = "root"
    /\ error = NoError
    /\ trees[1].declaration = None
    /\ Len(log[1]) = 3
    /\ heap[heap[trees[1]._root].children[1]].cls = "CommentNode"
    /\ ret.node = heap[trees[1]._root].children[2]
    /\ heap[ret.node].cls = "ElementNode"
    /\ heap[ret.node].children = <<>>
    /\ trees[1]._stack = <<trees[1]._root>>

\* C8: with a namespaces mapping, each prefix -> URI pair is written as
\* xmlns:prefix="URI" in the start tag of the element of the root call, and in
\* no descendant's.
C8_NamespacesOnRootCall ==
    ( /\ ret.op = "_serialize_html"
      /\ ret.ns # <<>>
      /\ heap[ret.node].cls = "ElementNode" )
    => LET decls == { " xmlns:" \o ret.ns[k][1] \o "=\"" \o ret.ns[k][2] \o "\"" :
                        k \in DOMAIN ret.ns }
       IN /\ decls = { ret.writes[k] : k \in 2..(1 + Len(ret.ns)) }
          /\ \A k \in (2 + Len(ret.ns))..Len(ret.writes) : ret.writes[k] \notin decls

\* The index of the first / last pair of `pairs` whose name is `name`.
FirstIndex(pairs, name) ==
    CHOOSE k \in DOMAIN pairs :
        pairs[k][1] = name /\ \A j \in 1..(k - 1) : pairs[j][1] # name
LastIndex(pairs, name) ==
    CHOOSE k \in DOMAIN pairs :
        pairs[k][1] = name /\ \A j \in (k + 1)..Len(pairs) : pairs[j][1] # name

\* C9: the Element of a StartTag holds each attribute name once, with the last
\* value given, in the order the names first came; the serializer writes one
\*  name="value" per attribute in that order, name="" for a None value.
C9_AttributesLastWriteWins ==
    /\ \A i \in DOMAIN log : \A k \in DOMAIN log[i] :
          LET e == log[i][k]
              given == e.ev.attrs
              held == heap[e.node].attrib
          IN (e.ev.op \in {"starttag", "startendtag"} /\ e.node # 0)
             => /\ \A a, b \in DOMAIN held : held[a][1] = held[b][1] => a = b
                /\ {held[a][1] : a \in DOMAIN held} = {given[g][1] : g \in DOMAIN given}
                /\ \A a \in DOMAIN held :
                      held[a][2] = given[LastIndex(given, held[a][1])][2]
                /\ \A a, b \in DOMAIN held :
                      a < b => FirstIndex(given, held[a][1]) < FirstIndex(given, held[b][1])
    /\ (ret.op = "_serialize_html" /\ heap[ret.node].cls = "ElementNode")
       => LET held == heap[ret.node].attrib
              off == 1 + Len(ret.ns)
          IN /\ \A a \in DOMAIN held :
                   ret.writes[off + a] =
                      IF held[a][2] = None
                      THEN " " \o held[a][1] \o "=\"\""
                      ELSE " " \o held[a][1] \o "=\"" \o held[a][2] \o "\""
             /\ ret.writes[off + Len(held) + 1] \in {">", "/>"}

\* <b k="1" j k="2"> serializes as <b k="2" j=""></b>.
C9_Witness ==
    /\ ret.op = "_serialize_html"
    /\ ret.ns = <<>>
    /\ \E k \in DOMAIN log[1] :
          /\ log[1][k].node = ret.node
          /\ log[1][k].ev.attrs = << <<"k", "1">>, <<"j", None>>, <<"k", "2">> >>
    /\ heap[ret.node].attrib = << <<"k", "2">>, <<"j", None>> >>
    /\ ret.value = "<b k=\"2\" j=\"\"></b>"

\* The nodes under n, each with its path of child indexes from n.
RECURSIVE PathsFrom(_, _, _)
PathsFrom(h, n, prefix) ==
    {<<n, prefix>>}
    \cup UNION { PathsFrom(h, h[n].children[k], Append(prefix, k)) :
                   k \in DOMAIN h[n].children }

Reach(h, n) == { p[1] : p \in PathsFrom(h, n, <<>>) }

\* The tree under n as a value, without the identities of its nodes.
RECURSIVE TreeOf(_, _)
TreeOf(h, n) ==
    [cls |-> h[n].cls, tag |-> h[n].tag, attrib |-> h[n].attrib, text |-> h[n].text,
     children |-> [k \in DOMAIN h[n].children |-> TreeOf(h, h[n].children[k])]]

\* What an instance holds: its tree, its open-element stack (each entry by its
\* place in the tree) and its declaration.
Holds(h, self) ==
    [tree |-> TreeOf(h, self._root),
     stack |-> [k \in DOMAIN self._stack |->
                  { p[2] : p \in { q \in PathsFrom(h, self._root, <<>>) :
                                     q[1] = self._stack[k] } }],
     declaration |-> self.declaration]

\* The instance a parse leaves when its events are fed alone to a new HTMLTree.
RECURSIVE Alone(_)
Alone(entries) ==
    IF entries = <<>>
    THEN HTMLTree_init(<<>>)
    ELSE LET before == Alone(Front(entries))
             o == Handle(before.heap, before.self, Last(entries).ev)
         IN [heap |-> o.heap, self |-> o.self]

\* C10: whatever the interleaving of the events of two parses, each instance
\* ends with the tree, stack and declaration it would have alone, and no node
\* is reachable from both trees.
C10_IndependentParses ==
    /\ \A i \in DOMAIN trees :
          Holds(heap, trees[i]) = Holds(Alone(log[i]).heap, Alone(log[i]).self)
    /\ \A i, j \in DOMAIN trees :
          i # j => Reach(heap, trees[i]._root) \cap Reach(heap, trees[j]._root) = {}
    /\ \A i \in DOMAIN trees : \A k \in DOMAIN trees[i]._stack :
          trees[i]._stack[k] \in Reach(heap, trees[i]._root)

\* Two parses whose events were interleaved: a node of the second tree was made
\* between two nodes of the first, and both parses took two events.
C10_Witness ==
    /\ Len(trees) = 2
    /\ Len(log[1]) = 2 /\ Len(log[2]) = 2
    /\ \E a, c \in Reach(heap, trees[1]._root), b \in Reach(heap, trees[2]._root) :
          2 < a /\ a < b /\ b < c
    /\ trees[1].declaration # trees[2].declaration

\* C11: in every reachable state the open-element stack is non-empty and its
\* bottom entry is the Document: the Document is never popped.
C11_DocumentNeverPopped ==
    \A i \in DOMAIN trees :
        /\ trees[i]._stack # <<>>
        /\ trees[i]._stack[1] = trees[i]._root

\* The entries of the open-element stack of instance i.
OnStack(i) == { trees[i]._stack[k] : k \in DOMAIN trees[i]._stack }

\* C12: no node of the childless set (an Element whose tag is in EMPTY, a Text,
\* Comment or ProcessingInstruction node) is on the open-element stack, and
\* every such node has zero children.
C12_ChildlessNodes ==
    \A n \in DOMAIN heap :
        heap[n].tag \in CHILDLESS
        => /\ heap[n].children = <<>>
           /\ \A i \in DOMAIN trees : n \notin OnStack(i)

\* <br>, text, comment: three childless nodes, all children of the Document,
\* which alone is on the stack.
C12_Witness ==
    /\ Len(heap) = 4
    /\ heap[2].cls = "ElementNode" /\ heap[2].tag \in EMPTY
    /\ heap[3].cls = "TextNode"
    /\ heap[4].cls \in {"CommentNode", "ProcessingInstructionNode"}
    /\ heap[1].children = <<2, 3, 4>>
    /\ trees[1]._stack = <<1>>

\* The step makes one new node, equal to el, the last child of the node on top
\* of the stack of instance i, and changes no other node.
AppendedUnderTop(i, el) ==
    /\ trees[i]._stack # <<>>
    /\ Len(heap') = Len(heap) + 1
    /\ heap'[Len(heap) + 1] = el
    /\ \A n \in DOMAIN heap :
          heap'[n] = IF n = Last(trees[i]._stack)
                     THEN [heap[n] EXCEPT !.children = Append(@, Len(heap) + 1)]
                     ELSE heap[n]

\* What StartTag(name, attrs) is to do: one new Element with that name and
\* those attributes under the top of the stack, pushed iff name is not childless.
StartTagEffect(i) ==
    LET e == Last(log'[i]).ev
    IN /\ AppendedUnderTop(i, [cls |-> "ElementNode", tag |-> e.tag,
                               attrib |-> dict(e.attrs), text |-> None,
                               children |-> <<>>])
       /\ trees'[i]._stack = IF e.tag \in CHILDLESS
                             THEN trees[i]._stack
                             ELSE Append(trees[i]._stack, Len(heap) + 1)
       /\ trees'[i].declaration = trees[i].declaration

\* C13: StartTag(name, attrs) in any reachable state creates one new Element
\* with that name and those attributes, appends it as the last child of the
\* node on top of the stack (changing no other node's children), and pushes it
\* iff name is not in the childless set.
C13_StartTagAppendsAndPushes ==
    [][\A i \in DOMAIN trees : Called(i, "starttag") => StartTagEffect(i)]_vars

\* The same, in the states where the stack holds a node.
StartTagOnOpenStack ==
    [][\A i \in DOMAIN trees :
          (Called(i, "starttag") /\ trees[i]._stack # <<>>)
          => (StartTagEffect(i) /\ error' = NoError)]_vars

\* The net effect of a combined start+end event: the stack as before, one new
\* Element without children under the top of the stack, no error.
StartEndTagEffect(i) ==
    LET e == Last(log'[i]).ev
    IN /\ error' = NoError
       /\ trees'[i]._stack = trees[i]._stack
       /\ AppendedUnderTop(i, [cls |-> "ElementNode", tag |-> e.tag,
                               attrib |-> dict(e.attrs), text |-> None,
                               children |-> <<>>])

\* C14: a combined start+end event is StartTag followed by EndTag of the same
\* name: for every tag name and every reachable state the stack is the same as
\* before, one new Element with zero children is the last child of the top of
\* the stack, and no error is raised.
C14_StartEndTagNetEffect ==
    [][\A i \in DOMAIN trees : Called(i, "startendtag") => StartEndTagEffect(i)]_vars

\* The same, in the states where the stack holds a node.
StartEndTagOnOpenStack ==
    [][\A i \in DOMAIN trees :
          (Called(i, "startendtag") /\ trees[i]._stack # <<>>)
          => StartEndTagEffect(i)]_vars

LeafEffect(i) ==
    LET e == Last(log'[i]).ev
    IN /\ AppendedUnderTop(i,
             CASE e.op = "data" ->
                    [cls |-> "TextNode", tag |-> TextNode, attrib |-> <<>>,
                     text |-> e.data, children |-> <<>>]
               [] e.op = "comment" ->
                    [cls |-> "CommentNode", tag |-> CommentNode, attrib |-> <<>>,
                     text |-> e.data, children |-> <<>>]
               [] e.op = "pi" ->
                    [cls |-> "ProcessingInstructionNode",
                     tag |-> ProcessingInstructionNode, attrib |-> <<>>,
                     text |-> e.data, children |-> <<>>])
       /\ trees'[i] = trees[i]

IsLeafCall(i) ==
    Called(i, "data") \/ Called(i, "comment") \/ Called(i, "pi")

\* C16: Data(text), Comment(text) and ProcessingInstruction(data) each append
\* exactly one new Text, Comment or ProcessingInstruction node carrying the
\* payload as the last child of the top of the stack, and leave the stack and
\* the declaration unchanged.
C16_LeafEventsAppendOneNode ==
    [][\A i \in DOMAIN trees : IsLeafCall(i) => LeafEffect(i)]_vars

\* The same, in the states where the stack holds a node.
LeafEventsOnOpenStack ==
    [][\A i \in DOMAIN trees :
          (IsLeafCall(i) /\ trees[i]._stack # <<>>)
          => (LeafEffect(i) /\ error' = NoError)]_vars

\* The text of the last Declaration event of a log, None when it has none.
RECURSIVE LastDeclaration(_)
LastDeclaration(entries) ==
    IF entries = <<>> THEN None
    ELSE IF Last(entries).ev.op = "decl" THEN Last(entries).ev.data
    ELSE LastDeclaration(Front(entries))

\* C17: Declaration(text) leaves the tree and the stack unchanged and only sets
\* the declaration field; after any event sequence the field holds the text of
\* the last Declaration event, and is unset if there was none.
C17_DeclarationLastWriteWins ==
    [][\A i \in DOMAIN trees :
          /\ trees[i].declaration = LastDeclaration(log[i])
          /\ trees'[i].declaration = LastDeclaration(log'[i])
          /\ Called(i, "decl")
             => /\ heap' = heap
                /\ trees'[i]._stack = trees[i]._stack
                /\ trees'[i]._root = trees[i]._root
                /\ error' = NoError]_vars

\* Two declarations around a start tag: the second one is the one held.
C17_Witness ==
    /\ Len(log[1]) = 3
    /\ log[1][1].ev.op = "decl"
    /\ log[1][2].ev.op = "starttag"
    /\ log[1][3].ev.op = "decl"
    /\ log[1][3].ev.data # log[1][1].ev.data
    /\ trees[1].declaration = log[1][3].ev.data
    /\ Len(heap) = 2

\* The writes of a sequence as a set.
Range(ws) == { ws[k] : k \in DOMAIN ws }

\* The serializer emits node n with /> and without a closing tag.
SelfClosed(h, n) ==
    LET ws == _serialize_html(h, n, <<>>)
    IN /\ "/>" \in Range(ws)
       /\ ("</" \o h[n].tag \o ">") \notin Range(ws)

ErrorFree(i) ==
    \A k \in DOMAIN log[i] : log[i][k].error = NoError

\* The stack st is a path of the tree h that starts at node top: every entry
\* above the bottom is the last child of the entry below it, no entry twice.
IsPathFrom(h, top, st) ==
    /\ st # <<>>
    /\ st[1] = top
    /\ \A k \in 1 .. Len(st) - 1 :
          /\ h[st[k]].children # <<>>
          /\ st[k + 1] = Last(h[st[k]].children)
    /\ \A j, k \in DOMAIN st : st[j] = st[k] => j = k

\* C19: in every state reached by events that raise no error, the
\* open-element stack is a path of the tree from the Document downwards: each
\* entry above the bottom is the last child of the entry directly below it, and
\* no node occurs twice in the stack.
C19_StackIsPath ==
    \A i \in DOMAIN trees :
        ErrorFree(i) => IsPathFrom(heap, trees[i]._root, trees[i]._stack)

\* x<a><b>: the stack is Document, a, b; a is the second child of Document.
C19_Witness ==
    /\ ErrorFree(1)
    /\ Len(log[1]) = 3
    /\ trees[1]._stack = <<1, 3, 4>>
    /\ heap[1].children = <<2, 3>>
    /\ heap[3].children = <<4>>
    /\ heap[2].cls = "TextNode"

\* Node n is an Element that has been on the stack of instance i and has been
\* popped from it.
Closed(i, n) ==
    /\ heap[n].cls = "ElementNode"
    /\ heap[n].tag \notin CHILDLESS
    /\ \E k \in DOMAIN log[i] : log[i][k].node = n
    /\ n \notin OnStack(i)

\* C20: closed elements are frozen: once an Element has been popped from the
\* open-element stack no later event of the parse puts it back on the stack or
\* changes its child list or its attributes.
C20_ClosedElementsFrozen ==
    [][\A i \in DOMAIN trees : \A n \in DOMAIN heap :
          Closed(i, n)
          => /\ n \notin { trees'[i]._stack[k] : k \in DOMAIN trees'[i]._stack }
             /\ heap'[n] = heap[n]]_vars

\* <b k j k>x</b> was parsed and text came after it: b is closed, holds its one
\* child and its attributes, and the later text is its sibling.
C20_Witness ==
    /\ Len(log[1]) = 3
    /\ log[1][1].ev.op = "starttag" /\ log[1][1].ev.tag = "b"
    /\ log[1][2].ev.op = "endtag" /\ log[1][2].error = NoError
    /\ log[1][3].ev.op = "data"
    /\ Closed(1, 2)
    /\ heap[2].children = <<>>
    /\ heap[2].attrib # <<>>
    /\ heap[1].children = <<2, 3>>
    /\ trees[1]._stack = <<1>>

====
